---- MODULE Spec2Model ----
(***************************************************************************)
(* Outfit generation engine: FastOutfitGenerator (outfit_generator.py),    *)
(* PrecomputedCompatibilityCache (cache.py) and the in-memory index of     *)
(* ItemDatabase (item_database.py).                                        *)
(*                                                                         *)
(* A behaviour is one request served by a freshly constructed service:     *)
(* generate_outfit_fast runs on the request thread, the scoring tasks of   *)
(* one _find_compatible_item_fast call run on the worker threads of its    *)
(* ThreadPoolExecutor and interleave freely.                               *)
(*                                                                         *)
(* Spec and FairSpec: one request on a service just built.  WarmSpec: one  *)
(* request after an earlier one has filled the cache.  CacheSpec: one      *)
(* thread calling the cache while time passes.  RaceSpec: several threads  *)
(* setting and reading one key.  IndexSpec: the index under additions,     *)
(* deletions and lookups.  PoolSpec: a find with more candidates than the  *)
(* executor has threads.  SelectSpec: _find_compatible_item_fast on        *)
(* categories larger than the working set.  RoleSpec: requests served one  *)
(* after the other, with a scorer that is not symmetric.  UpdateSpec: a    *)
(* request served while another thread rebuilds the index.                 *)
(***************************************************************************)
EXTENDS Integers, Sequences, FiniteSets, TLC

(***************************************************************************)
(* Bounds of the model.                                                    *)
(***************************************************************************)
\* item ids are 1..NumItems; id 0 is an id no item has
NumItems == 5
\* scores are the fractions 0/MaxScore .. MaxScore/MaxScore of [0,1]
MaxScore == 1
\* a scorer call takes no measurable time or MaxDelay seconds
MaxDelay == 2
\* max_items of a request is drawn from 1..MaxMaxItems
MaxMaxItems == 3
\* the threads that call the cache directly are 1..NumClients
NumClients == 2
\* the ids those threads use are 1..NumCacheIds
NumCacheIds == 3
\* the clock of the cache advances by TickSeconds at a time
TickSeconds == 1800

(***************************************************************************)
(* Program constants.                                                      *)
(***************************************************************************)
\* future.result(timeout=1.0)
Deadline == 1
\* ThreadPoolExecutor(max_workers=4)
max_workers == 4
\* candidates[:100]
WorkingSetCap == 100
\* get_items_by_category(target_category, limit=2000)
FetchLimit == 2000
\* best_item = None: the id standing for "no item"
NoItem == 0
\* setex(key, 3600, ...): the seconds an entry of the redis backend lives
TTL == 3600
\* cache_lock held by no thread
NoOwner == 0

Ids == 1..NumItems
Scores == 0..MaxScore
Delays == {0, MaxDelay}
Clients == 1..NumClients
CacheIds == 1..NumCacheIds

(***************************************************************************)
(* Sequence helpers.                                                       *)
(***************************************************************************)
\* Python's seq[:n]
Take(seq, n) == SubSeq(seq, 1, IF Len(seq) < n THEN Len(seq) ELSE n)

\* Python's [x for x in seq if Keep(x)]
RECURSIVE Filter(_, _)
Filter(seq, keep) ==
    IF seq = <<>> THEN <<>>
    ELSE IF Len(seq) = 1
         THEN IF seq[1] \in keep THEN seq ELSE <<>>
         ELSE LET half == Len(seq) \div 2
              IN Filter(SubSeq(seq, 1, half), keep)
                 \o Filter(SubSeq(seq, half + 1, Len(seq)), keep)

Range(seq) == {seq[i] : i \in 1..Len(seq)}

\* the ids of a set in ascending order (the row order of SELECT on the
\* INTEGER PRIMARY KEY table)
RECURSIVE Ascending(_)
Ascending(S) ==
    IF S = {} THEN <<>>
    ELSE LET m == CHOOSE x \in S : \A y \in S : x <= y
         IN <<m>> \o Ascending(S \ {m})

(***************************************************************************)
(* Categories.  The items a behaviour may store are drawn from a fixed     *)
(* universe: item i, when stored, has category CategoryOf(i).              *)
(***************************************************************************)
CategoryOf(i) ==
    CASE i = 1 -> "shirt"
      [] i = 2 -> "pants"
      [] i = 3 -> "pants"
      [] i = 4 -> "shoes"
      [] i = 5 -> "scarf"
      [] i = 6 -> "Pants"
      [] OTHER -> "shoes"

\* str.lower() on the category labels in use
Lower(s) ==
    CASE s = "Pants" -> "pants"
      [] s = "Shirt" -> "shirt"
      [] s = "Shoes" -> "shoes"
      [] OTHER -> s

\* self.outfit_templates
TemplateKeys ==
    {"blazer", "blouse", "body", "dress", "hat", "hoodie", "longsleeve",
     "outwear", "pants", "polo", "shirt", "shoes", "shorts", "skirt",
     "t-shirt", "top", "undershirt"}

outfit_templates(cat) ==
    CASE cat = "blazer"     -> <<"shirt", "pants", "shoes">>
      [] cat = "blouse"     -> <<"pants", "shoes">>
      [] cat = "body"       -> <<"shoes">>
      [] cat = "dress"      -> <<"shoes", "outwear">>
      [] cat = "hat"        -> <<"top", "pants", "shoes">>
      [] cat = "hoodie"     -> <<"pants", "shoes">>
      [] cat = "longsleeve" -> <<"pants", "shoes">>
      [] cat = "outwear"    -> <<"shirt", "pants", "shoes">>
      [] cat = "pants"      -> <<"blouse", "shoes">>
      [] cat = "polo"       -> <<"pants", "shoes">>
      [] cat = "shirt"      -> <<"pants", "shoes">>
      [] cat = "shoes"      -> <<"shirt", "pants", "top">>
      [] cat = "shorts"     -> <<"polo", "shoes">>
      [] cat = "skirt"      -> <<"shirt", "top", "shoes">>
      [] cat = "t-shirt"    -> <<"shorts", "shoes">>
      [] cat = "top"        -> <<"skirt", "shoes">>
      [] cat = "undershirt" -> <<"shirt", "pants", "shoes">>
      [] OTHER              -> <<>>

\* a variant of TemplateGet: .get(key, ['shoes']), a default template instead of None
TemplateGetDefault(category) ==
    LET key == Lower(category)
    IN [found |-> TRUE,
        cats |-> IF key \in TemplateKeys THEN outfit_templates(key) ELSE <<"shoes">>]

\* self.outfit_templates.get(seed_item['category'].lower(), None):
\* found = FALSE stands for None
TemplateGet(category) ==
    LET key == Lower(category)
    IN [found |-> key \in TemplateKeys, cats |-> outfit_templates(key)]

\* [cat for cat in template if cat != seed_category]
RECURSIVE required_categories(_, _)
required_categories(template, seed_category) ==
    IF template = <<>> THEN <<>>
    ELSE IF Head(template) # seed_category
         THEN <<Head(template)>> \o required_categories(Tail(template), seed_category)
         ELSE required_categories(Tail(template), seed_category)

(***************************************************************************)
(* ItemDatabase: the in-memory index.                                      *)
(***************************************************************************)
\* _load_cache: items_cache maps id -> category; category_cache maps the
\* category AS STORED (not lower-cased) to the items in row order
LoadItemsCache(rs) == [i \in rs |-> CategoryOf(i)]

LoadCategoryCache(rs) ==
    [cat \in {CategoryOf(i) : i \in rs} |->
        Ascending({i \in rs : CategoryOf(i) = cat})]

\* get_item: self.items_cache.get(item_id); found = FALSE stands for None
get_item(ic, item_id) == [found |-> item_id \in DOMAIN ic, id |-> item_id]

\* a variant of get_items_by_category: the default of .get is the list of all
\* the items instead of []
get_items_by_categoryDefaultAll(cc, category, limit) ==
    LET key == Lower(category)
    IN IF key \in DOMAIN cc THEN Take(cc[key], limit)
       ELSE Take(Ascending(UNION {Range(cc[k]) : k \in DOMAIN cc}), limit)

\* get_items_by_category: self.category_cache.get(category.lower(), [])[:limit]
get_items_by_category(cc, category, limit) ==
    LET key == Lower(category)
    IN IF key \in DOMAIN cc THEN Take(cc[key], limit) ELSE <<>>

(***************************************************************************)
(* PrecomputedCompatibilityCache.                                          *)
(***************************************************************************)
\* a variant of get_cache_key: the ids are not ordered, f"compat:{item1_id}:{item2_id}"
get_cache_keyAsGiven(item1_id, item2_id) == <<item1_id, item2_id>>

\* _get_cache_key: "compat:lo:hi" is the pair <<lo, hi>>
get_cache_key(item1_id, item2_id) ==
    IF item1_id < item2_id THEN <<item1_id, item2_id>>
    ELSE <<item2_id, item1_id>>

\* get_compatibility on a store: hit = FALSE stands for None
get_compatibility(st, item1_id, item2_id) ==
    LET key == get_cache_key(item1_id, item2_id)
    IN IF key \in DOMAIN st
       THEN [hit |-> TRUE, score |-> st[key]]
       ELSE [hit |-> FALSE, score |-> 0]

\* a variant of set_compatibility: the score is written over nothing, it is
\* added to the entry the key already has
set_compatibilityAdd(st, item1_id, item2_id, score) ==
    LET key == get_cache_key(item1_id, item2_id)
    IN [k \in DOMAIN st \cup {key} |->
           IF k = key THEN (IF key \in DOMAIN st THEN st[key] + score ELSE score)
           ELSE st[k]]

\* a variant of set_compatibility: nothing is written
set_compatibilityDropped(st, item1_id, item2_id, score) == st

\* set_compatibility on a store
set_compatibility(st, item1_id, item2_id, score) ==
    LET key == get_cache_key(item1_id, item2_id)
    IN [k \in DOMAIN st \cup {key} |-> IF k = key THEN score ELSE st[k]]

\* batch_set_compatibility: the entries of the mapping are set one after the
\* other, in the order of the mapping; data is the sequence of its
\* <<item1_id, item2_id, score>>
RECURSIVE batch_set_compatibility(_, _)
batch_set_compatibility(st, data) ==
    IF data = <<>> THEN st
    ELSE batch_set_compatibility(
             set_compatibility(st, Head(data)[1], Head(data)[2], Head(data)[3]),
             Tail(data))

\* a variant of PrecomputedCompatibilityCache: no except clause around ping(),
\* use_redis keeps the value it was given
PrecomputedCompatibilityCacheNoFallback(cfg) == cfg.use_redis /\ cfg.creds

\* __init__: the value of self.use_redis when construction ends.  cfg.creds
\* stands for "redis_host and redis_port and redis_username and
\* redis_password", cfg.reachable for ping() returning
PrecomputedCompatibilityCache(cfg) ==
    cfg.use_redis /\ cfg.creds /\ cfg.reachable

(***************************************************************************)
(* Averages.  np.mean(scores) is the exact fraction num/den; two averages  *)
(* are compared by cross-multiplication.                                   *)
(***************************************************************************)
RECURSIVE SumSeq(_)
SumSeq(seq) == IF seq = <<>> THEN 0 ELSE Head(seq) + SumSeq(Tail(seq))

\* np.mean(scores) if scores else 0.0
Mean(scores) ==
    IF scores = <<>> THEN [num |-> 0, den |-> 1]
    ELSE [num |-> SumSeq(scores), den |-> Len(scores)]

\* best_score = 0
InitialBestScore == [num |-> 0, den |-> 1]

Greater(a, b) == a.num * b.den > b.num * a.den
SameAvg(a, b) == a.num * b.den = b.num * a.den

\* a variant of Better: the comparison is missing, the last future yielded wins
BetterAlways(avg_score, best_score) == TRUE

\* if avg_score > best_score
Better(avg_score, best_score) == Greater(avg_score, best_score)

(***************************************************************************)
(* FastOutfitGenerator: the decisions of generate_outfit_fast and          *)
(* _find_compatible_item_fast.                                             *)
(***************************************************************************)
\* a variant of LoopBreak: > for >=
LoopBreakLate(items, mi) == Len(items) > mi

\* if len(outfit_items) >= max_items: break
LoopBreak(items, mi) == Len(items) >= mi

\* a variant of RemoveCurrent: the two lists swapped in the comprehension
RemoveCurrentSwapped(cands, current_items) ==
    Filter(current_items, Range(current_items) \ Range(cands))

\* candidates = [item for item in candidates if item['id'] not in current_ids]
RemoveCurrent(cands, current_items) ==
    Filter(cands, Range(cands) \ Range(current_items))

\* a variant of WorkingSet: the list is cut to its first 100 items before the
\* items of the outfit are removed
WorkingSetCutFirst(fetched, current_items) ==
    RemoveCurrent(Take(fetched, WorkingSetCap), current_items)

\* lines 93-94 and 107: the candidates outside the outfit, then candidates[:100]
WorkingSet(fetched, current_items) ==
    Take(RemoveCurrent(fetched, current_items), WorkingSetCap)

\* a variant of OnTaskException: no except clause around future.result()
OnTaskExceptionRaise == "raise"

\* except: continue  -- what the selector does with a future whose result()
\* raises: "continue" drops the candidate, "raise" would abort the call
OnTaskException == "continue"

\* a variant of Finished: a future counts as finished as soon as it runs
FinishedOrRunning == {"done", "raised", "get", "predict", "set"}

\* the states of a future that concurrent.futures counts as finished
Finished == {"done", "raised"}

\* future.result(timeout=1.0): the seconds the caller waits, counted from the
\* call of result(), not from the start of the task: none on a finished
\* future, and past the timeout on one that is not
ResultWait(t) == IF t.st \in Finished THEN 0 ELSE Deadline + 1
ResultTimesOut(t) == ResultWait(t) > Deadline

(***************************************************************************)
(* State.                                                                  *)
(***************************************************************************)
VARIABLES
    rows,            \* the ids of the rows of the items table
    items_cache,     \* ItemDatabase.items_cache: id -> category
    category_cache,  \* ItemDatabase.category_cache: stored category -> ids
    use_redis,       \* PrecomputedCompatibilityCache.use_redis
    cache_store,     \* memory_cache, or the keys of the redis backend
    scorer,          \* the scores predict_compatibility has returned so far,
                     \* by ordered pair: the model is a function of its inputs
    pc,              \* request thread: "idle" (no request yet), "loop" (line 62),
                     \* "collect" (line 114), "done" (the call has ended)
    seed_item_id,    \* arguments of the current call
    max_items,
    outfit_items,    \* the list outfit_items (ids)
    required,        \* the list required_categories
    cat_idx,         \* position of the for loop of line 62 in required
    candidates,      \* candidates[:100] of the current or last find
    task,            \* the futures of the current or last find, by candidate
    yielded,         \* the futures as_completed has yielded so far, in order
    best_item,       \* best_item, best_score of the current or last find
    best_score,
    find_state,      \* "none", "running", "returned": the last find of the call
    found,           \* what the last find returned (NoItem for None)
    stats,           \* per call: index lookups by category, scorer calls, cache
                     \* writes, tasks that raised in the scorer, in the cache
    result,          \* outcome of the last call
    config,          \* the arguments PrecomputedCompatibilityCache was built with
    cache_lock,      \* cache_lock: the thread that holds it, NoOwner when free
    client,          \* the threads that call the cache directly: the call each
                     \* is in, and what its last call returned
    written,         \* by cache key: the last score set, the seconds since then,
                     \* and whether two different scores were ever set
    lookup,          \* the last get_items_by_category call and what it returned
    history,         \* the generation calls that have returned (log: arguments,
                     \* whether the cache was empty at the start, the outfit)
                     \* and whether the cache is still empty (fresh)
    loader           \* the thread in add_item_batch or delete_item: the call,
                     \* its position in _load_cache, the rows it has fetched

vars == <<rows, items_cache, category_cache, use_redis, cache_store, scorer,
          pc, seed_item_id, max_items, outfit_items, required, cat_idx,
          candidates, task, yielded, best_item, best_score, find_state, found,
          stats, result, config, cache_lock, client, written, lookup, history,
          loader>>

\* the state outside a generation call: the threads that use the cache and
\* the index directly
sideVars == <<config, cache_lock, client, written, lookup, history, loader>>
dbVars == <<rows, items_cache, category_cache>>
callVars == <<seed_item_id, max_items, required>>
findVars == <<candidates, task, yielded, best_item, best_score, find_state, found>>

NoResult == [kind |-> "none", items |-> <<>>, item_count |-> 0]
NoStats == [lookups |-> 0, scorer_calls |-> 0, cache_writes |-> 0,
            scorer_failures |-> 0, cache_failures |-> 0]
EmptyFn == [x \in {} |-> 0]

\* a future just submitted
Queued == [st |-> "queued", i |-> 1, scores |-> <<>>, pend |-> 0, elapsed |-> 0,
           err |-> "none"]

\* a client thread that has made no call yet
NoReturn == [kind |-> "none", score |-> 0]
IdleClient == [op |-> "none", args |-> <<>>, st |-> "idle", ret |-> NoReturn]

NoLookup == [category |-> "", limit |-> 0, items |-> <<>>]

\* no generation call has returned; fresh: the cache has been empty since the
\* process started
NoHistory == [fresh |-> TRUE, log |-> {}]

\* no thread is in add_item_batch or delete_item
NoLoad == [op |-> "none", item |-> 0, st |-> "idle", fetched |-> <<>>]

\* no generation call has been made
NoCall ==
    /\ pc = "idle"
    /\ seed_item_id = 0
    /\ max_items = 1
    /\ outfit_items = <<>>
    /\ required = <<>>
    /\ cat_idx = 1
    /\ candidates = <<>>
    /\ task = EmptyFn
    /\ yielded = <<>>
    /\ best_item = NoItem
    /\ best_score = InitialBestScore
    /\ find_state = "none"
    /\ found = NoItem
    /\ stats = NoStats
    /\ result = NoResult

\* no thread has used the cache or the index directly
NoSideCall ==
    /\ cache_lock = NoOwner
    /\ client = [t \in Clients |-> IdleClient]
    /\ written = EmptyFn
    /\ lookup = NoLookup
    /\ history = NoHistory
    /\ loader = NoLoad

\* the service of main.py: the cache is configured for redis, which answers
\* the ping of the constructor or does not
Init ==
    /\ rows \in SUBSET Ids
    /\ items_cache = LoadItemsCache(rows)
    /\ category_cache = LoadCategoryCache(rows)
    /\ config \in {[use_redis |-> TRUE, creds |-> TRUE, reachable |-> r] : r \in BOOLEAN}
    /\ use_redis = PrecomputedCompatibilityCache(config)
    /\ cache_store = EmptyFn
    /\ scorer = EmptyFn
    /\ NoCall
    /\ NoSideCall

(***************************************************************************)
(* generate_outfit_fast, lines 36-59: the call up to the for loop.         *)
(***************************************************************************)
GenerateOutfit(sid, mi) ==
    /\ pc = "idle"
    /\ seed_item_id' = sid
    /\ max_items' = mi
    /\ stats' = NoStats
    /\ candidates' = <<>>
    /\ task' = EmptyFn
    /\ yielded' = <<>>
    /\ best_item' = NoItem
    /\ best_score' = InitialBestScore
    /\ find_state' = "none"
    /\ found' = NoItem
    /\ cat_idx' = 1
    /\ LET seed_item == get_item(items_cache, sid)
       IN IF ~seed_item.found
          THEN \* raise ValueError
               /\ result' = [kind |-> "ValueError", items |-> <<>>, item_count |-> 0]
               /\ pc' = "done"
               /\ outfit_items' = <<>>
               /\ required' = <<>>
          ELSE LET template == TemplateGet(items_cache[sid])
               IN IF ~template.found
                  THEN /\ result' = [kind |-> "ok", items |-> <<sid>>, item_count |-> 1]
                       /\ pc' = "done"
                       /\ outfit_items' = <<sid>>
                       /\ required' = <<>>
                  ELSE /\ result' = NoResult
                       /\ pc' = "loop"
                       /\ outfit_items' = <<sid>>
                       /\ required' = required_categories(template.cats,
                                                          Lower(items_cache[sid]))
    /\ UNCHANGED <<sideVars, dbVars, use_redis, cache_store, scorer>>

(***************************************************************************)
(* generate_outfit_fast, lines 62-77: the loop exits and the call returns. *)
(***************************************************************************)
ReturnOutfit ==
    /\ pc = "loop"
    /\ cat_idx > Len(required) \/ LoopBreak(outfit_items, max_items)
    /\ result' = [kind |-> "ok", items |-> outfit_items,
                  item_count |-> Len(outfit_items)]
    /\ pc' = "done"
    /\ UNCHANGED <<sideVars, dbVars, use_redis, cache_store, scorer, callVars,
                   outfit_items, cat_idx, findVars, stats>>

(***************************************************************************)
(* _find_compatible_item_fast, lines 87-98: the category has no candidate  *)
(* outside the outfit, None is returned and the loop goes on (line 70).    *)
(* The branch of lines 81-85 needs an empty current_items, and line 57     *)
(* puts the seed in the list before the first call.                        *)
(***************************************************************************)
FindNoCandidate ==
    /\ pc = "loop"
    /\ cat_idx <= Len(required)
    /\ ~LoopBreak(outfit_items, max_items)
    /\ LET fetched == get_items_by_category(category_cache, required[cat_idx], FetchLimit)
       IN /\ fetched = <<>> \/ RemoveCurrent(fetched, outfit_items) = <<>>
          /\ candidates' = <<>>
    /\ task' = EmptyFn
    /\ yielded' = <<>>
    /\ best_item' = NoItem
    /\ best_score' = InitialBestScore
    /\ find_state' = "returned"
    /\ found' = NoItem
    /\ cat_idx' = cat_idx + 1
    /\ stats' = [stats EXCEPT !.lookups = @ + 1]
    /\ UNCHANGED <<sideVars, dbVars, use_redis, cache_store, scorer, pc, callVars,
                   outfit_items, result>>

(***************************************************************************)
(* _find_compatible_item_fast, lines 87-112: the working set is submitted  *)
(* to the executor, one future per candidate.                              *)
(***************************************************************************)
FindSubmit ==
    /\ pc = "loop"
    /\ cat_idx <= Len(required)
    /\ ~LoopBreak(outfit_items, max_items)
    /\ LET fetched == get_items_by_category(category_cache, required[cat_idx], FetchLimit)
           remaining == RemoveCurrent(fetched, outfit_items)
       IN /\ fetched # <<>>
          /\ remaining # <<>>
          /\ candidates' = WorkingSet(fetched, outfit_items)
          /\ task' = [c \in Range(WorkingSet(fetched, outfit_items)) |-> Queued]
    /\ yielded' = <<>>
    /\ best_item' = NoItem
    /\ best_score' = InitialBestScore
    /\ find_state' = "running"
    /\ found' = NoItem
    /\ pc' = "collect"
    /\ stats' = [stats EXCEPT !.lookups = @ + 1]
    /\ UNCHANGED <<sideVars, dbVars, use_redis, cache_store, scorer, callVars,
                   outfit_items, cat_idx, result>>

(***************************************************************************)
(* The worker threads of the executor.  A future leaves the work queue in  *)
(* submission order when one of the max_workers threads is free.           *)
(***************************************************************************)
Running == {c \in DOMAIN task : task[c].st \in {"get", "predict", "set", "hung"}}

FirstQueued(c) ==
    \E n \in 1..Len(candidates) :
        /\ candidates[n] = c
        /\ \A m \in 1..(n - 1) : task[candidates[m]].st # "queued"

\* a variant of StartTask: an executor that starts a thread for every future
StartTaskThreadPerFuture(c) ==
    /\ c \in DOMAIN task
    /\ task[c].st = "queued"
    /\ FirstQueued(c)
    /\ task' = [task EXCEPT ![c].st = "get"]
    /\ UNCHANGED <<sideVars, dbVars, use_redis, cache_store, scorer, pc, callVars,
                   outfit_items, cat_idx, candidates, yielded, best_item,
                   best_score, find_state, found, stats, result>>

StartTask(c) ==
    /\ c \in DOMAIN task
    /\ task[c].st = "queued"
    /\ FirstQueued(c)
    /\ Cardinality(Running) < max_workers
    /\ task' = [task EXCEPT ![c].st = "get"]
    /\ UNCHANGED <<sideVars, dbVars, use_redis, cache_store, scorer, pc, callVars,
                   outfit_items, cat_idx, candidates, yielded, best_item,
                   best_score, find_state, found, stats, result>>

\* a variant of Advance: the return is inside the loop of line 130, which ends
\* after the first current item
AdvanceFirstOnly(t, s) ==
    [t EXCEPT !.st = "done", !.scores = Append(@, s), !.pend = 0]

\* scores.append(s) and the next round of the loop of line 130; after the
\* last current item the task returns np.mean(scores) (line 151)
Advance(t, s) ==
    IF t.i = Len(outfit_items)
    THEN [t EXCEPT !.st = "done", !.scores = Append(@, s), !.pend = 0]
    ELSE [t EXCEPT !.st = "get", !.i = @ + 1, !.scores = Append(@, s), !.pend = 0]

\* seconds spent so far, kept up to the first value past the deadline
AddElapsed(e, d) == IF e + d > Deadline THEN Deadline + 1 ELSE e + d

\* _calculate_compatibility_with_outfit, lines 132-137: the cache read
TaskCacheGet(c) ==
    /\ c \in DOMAIN task
    /\ task[c].st = "get"
    /\ LET r == get_compatibility(cache_store, c, outfit_items[task[c].i])
       IN task' = [task EXCEPT ![c] =
                      IF r.hit THEN Advance(@, r.score)
                      ELSE [@ EXCEPT !.st = "predict"]]
    /\ UNCHANGED <<sideVars, dbVars, use_redis, cache_store, scorer, pc, callVars,
                   outfit_items, cat_idx, candidates, yielded, best_item,
                   best_score, find_state, found, stats, result>>

\* lines 140-143: predict_compatibility(current_item, candidate) returns s
\* after d seconds; the same ordered pair always gets the same score
TaskPredictReturns(c, s, d) ==
    /\ c \in DOMAIN task
    /\ task[c].st = "predict"
    /\ LET pair == <<outfit_items[task[c].i], c>>
       IN /\ pair \in DOMAIN scorer => s = scorer[pair]
          /\ scorer' = [q \in DOMAIN scorer \cup {pair} |->
                           IF q = pair THEN s ELSE scorer[q]]
    /\ task' = [task EXCEPT ![c].st = "set", ![c].pend = s,
                            ![c].elapsed = AddElapsed(@, d)]
    /\ stats' = [stats EXCEPT !.scorer_calls = @ + 1]
    /\ UNCHANGED <<sideVars, dbVars, use_redis, cache_store, pc, callVars,
                   outfit_items, cat_idx, candidates, yielded, best_item,
                   best_score, find_state, found, result>>

\* predict_compatibility raises: the exception is stored in the future
TaskPredictRaises(c) ==
    /\ c \in DOMAIN task
    /\ task[c].st = "predict"
    /\ task' = [task EXCEPT ![c].st = "raised", ![c].err = "ScoringFailure"]
    /\ stats' = [stats EXCEPT !.scorer_calls = @ + 1, !.scorer_failures = @ + 1]
    /\ UNCHANGED <<sideVars, dbVars, use_redis, cache_store, scorer, pc, callVars,
                   outfit_items, cat_idx, candidates, yielded, best_item,
                   best_score, find_state, found, result>>

\* predict_compatibility never returns
TaskPredictHangs(c) ==
    /\ c \in DOMAIN task
    /\ task[c].st = "predict"
    /\ task' = [task EXCEPT ![c].st = "hung"]
    /\ stats' = [stats EXCEPT !.scorer_calls = @ + 1]
    /\ UNCHANGED <<sideVars, dbVars, use_redis, cache_store, scorer, pc, callVars,
                   outfit_items, cat_idx, candidates, yielded, best_item,
                   best_score, find_state, found, result>>

\* lines 144-149: the score is appended and written to the cache
TaskCacheSet(c) ==
    /\ c \in DOMAIN task
    /\ task[c].st = "set"
    /\ cache_store' = set_compatibility(cache_store, c, outfit_items[task[c].i],
                                        task[c].pend)
    /\ task' = [task EXCEPT ![c] = Advance(@, @.pend)]
    /\ stats' = [stats EXCEPT !.cache_writes = @ + 1]
    /\ UNCHANGED <<sideVars, dbVars, use_redis, scorer, pc, callVars,
                   outfit_items, cat_idx, candidates, yielded, best_item,
                   best_score, find_state, found, result>>

\* a call of the redis client (get, line 39; setex, line 53) raises
TaskCacheRaises(c) ==
    /\ use_redis
    /\ c \in DOMAIN task
    /\ task[c].st \in {"get", "set"}
    /\ task' = [task EXCEPT ![c].st = "raised", ![c].err = "CacheFailure"]
    /\ stats' = [stats EXCEPT !.cache_failures = @ + 1]
    /\ UNCHANGED <<sideVars, dbVars, use_redis, cache_store, scorer, pc, callVars,
                   outfit_items, cat_idx, candidates, yielded, best_item,
                   best_score, find_state, found, result>>

(***************************************************************************)
(* _find_compatible_item_fast, lines 114-122: as_completed yields a        *)
(* finished future that it has not yielded yet.  The futures finished      *)
(* before the loop starts come in the order of a set, the others in the    *)
(* order they finish: any finished future may be the next one.             *)
(***************************************************************************)
Collect(c) ==
    /\ pc = "collect"
    /\ c \in DOMAIN task
    /\ c \notin Range(yielded)
    /\ task[c].st \in Finished
    /\ yielded' = Append(yielded, c)
    /\ IF ResultTimesOut(task[c]) \/ task[c].st = "raised"
       THEN IF OnTaskException = "continue"
            THEN UNCHANGED <<best_item, best_score, pc, result>>
            ELSE \* the exception leaves generate_outfit_fast
                 /\ result' = [kind |-> "TaskException", items |-> <<>>,
                               item_count |-> 0]
                 /\ pc' = "done"
                 /\ UNCHANGED <<best_item, best_score>>
       ELSE LET avg_score == Mean(task[c].scores)
            IN /\ IF Better(avg_score, best_score)
                  THEN /\ best_score' = avg_score
                       /\ best_item' = c
                  ELSE UNCHANGED <<best_item, best_score>>
               /\ UNCHANGED <<pc, result>>
    /\ UNCHANGED <<sideVars, dbVars, use_redis, cache_store, scorer, callVars,
                   outfit_items, cat_idx, candidates, task, find_state, found,
                   stats>>

(***************************************************************************)
(* Lines 114-124 and 70-71: as_completed is exhausted once every future    *)
(* has been yielded, the with block leaves through shutdown(wait=True),    *)
(* best_item is returned and appended when it is an item.                  *)
(***************************************************************************)
FinishFind ==
    /\ pc = "collect"
    /\ Range(yielded) = DOMAIN task
    /\ \A c \in DOMAIN task : task[c].st \in Finished
    /\ found' = best_item
    /\ find_state' = "returned"
    /\ outfit_items' = IF best_item # NoItem THEN Append(outfit_items, best_item)
                       ELSE outfit_items
    /\ cat_idx' = cat_idx + 1
    /\ pc' = "loop"
    /\ UNCHANGED <<sideVars, dbVars, use_redis, cache_store, scorer, callVars,
                   candidates, task, yielded, best_item, best_score, stats,
                   result>>

(***************************************************************************)
(* Specifications.                                                         *)
(***************************************************************************)
MainThread ==
    \/ \E sid \in 0..NumItems, mi \in 1..MaxMaxItems : GenerateOutfit(sid, mi)
    \/ ReturnOutfit
    \/ FindNoCandidate
    \/ FindSubmit
    \/ \E c \in Ids : Collect(c)
    \/ FinishFind

Worker(c) ==
    \/ StartTask(c)
    \/ TaskCacheGet(c)
    \/ \E s \in Scores, d \in Delays : TaskPredictReturns(c, s, d)
    \/ TaskPredictRaises(c)
    \/ TaskPredictHangs(c)
    \/ TaskCacheSet(c)
    \/ TaskCacheRaises(c)

Next ==
    \/ MainThread
    \/ \E c \in Ids : Worker(c)

Spec == Init /\ [][Next]_vars

\* the main thread and every worker thread keep being scheduled
FairSpec ==
    /\ Spec
    /\ WF_vars(MainThread)
    /\ \A c \in Ids : WF_vars(Worker(c))

TypeOK ==
    /\ rows \subseteq 1..(NumItems + 1)
    /\ pc \in {"idle", "loop", "collect", "done"}
    /\ find_state \in {"none", "running", "returned"}
    /\ found \in Ids \cup {NoItem}
    /\ best_item \in Ids \cup {NoItem}
    /\ Range(outfit_items) \subseteq Ids
    /\ \A c \in DOMAIN task :
          task[c].st \in {"queued", "get", "predict", "set", "done", "raised", "hung"}
    /\ cache_lock \in Clients \cup {NoOwner}
    /\ \A t \in Clients :
          /\ client[t].st \in {"idle", "call", "locked", "returned"}
          /\ client[t].op \in {"none", "get", "set", "batch_set"}
          /\ client[t].ret.kind \in {"none", "hit", "miss", "ok", "raised"}
    /\ \A k \in DOMAIN written : written[k].age \in 0..(TTL + 1)
    /\ use_redis = PrecomputedCompatibilityCache(config)
    /\ history.fresh \in BOOLEAN
    /\ loader.st \in {"idle", "select", "clear_items", "clear_categories", "row",
                      "row_category"}

(***************************************************************************)
(* A request served after an earlier one.  The earlier request was         *)
(* generate_outfit_fast(1, 2): it scored item 1 against pants and cached   *)
(* the scores of the candidates whose task ran to its end.  The scorer is  *)
(* a function of its inputs, so the scores it gave then are the ones it    *)
(* gives now.  The catalog holds a shirt, pants and shoes.                  *)
(***************************************************************************)
WarmInit ==
    /\ rows \in {{1, 2, 4}, {1, 2, 3, 4}}
    /\ items_cache = LoadItemsCache(rows)
    /\ category_cache = LoadCategoryCache(rows)
    /\ config \in {[use_redis |-> TRUE, creds |-> TRUE, reachable |-> r] : r \in BOOLEAN}
    /\ use_redis = PrecomputedCompatibilityCache(config)
    /\ \E K \in SUBSET Range(get_items_by_category(category_cache, "pants", FetchLimit)) :
          /\ K # {}
          /\ \E sc \in [K -> Scores] :
                /\ scorer = [p \in {<<1, c>> : c \in K} |-> sc[p[2]]]
                /\ cache_store = [k \in {get_cache_key(c, 1) : c \in K} |-> sc[k[2]]]
    /\ NoCall
    /\ NoSideCall

WarmSpec == WarmInit /\ [][Next]_vars

(***************************************************************************)
(* PrecomputedCompatibilityCache used directly: a few threads call         *)
(* get_compatibility, set_compatibility and batch_set_compatibility on one *)
(* cache while time passes.  A call of the in-memory backend takes         *)
(* cache_lock, works on memory_cache and releases the lock; a call of the  *)
(* redis backend is one command, or one pipeline, that the server runs     *)
(* atomically or that raises.                                              *)
(***************************************************************************)
genVars == <<rows, items_cache, category_cache, scorer, pc, seed_item_id,
             max_items, outfit_items, required, cat_idx, candidates, task,
             yielded, best_item, best_score, find_state, found, stats, result,
             history, loader>>

Configs == [use_redis : BOOLEAN, creds : BOOLEAN, reachable : BOOLEAN]

\* the pairs the cache is asked about: item 1 with another item, in either
\* order of the arguments
CachePairs ==
    {<<1, b>> : b \in CacheIds \ {1}} \cup {<<b, 1>> : b \in CacheIds \ {1}}

\* the mappings given to batch_set_compatibility: one pair, or a pair in both
\* orders
BatchData ==
    {<<<<1, 2, s>>>> : s \in Scores}
        \cup {<<<<1, 2, s1>>, <<2, 1, s2>>>> : s1 \in Scores, s2 \in Scores}

\* what is known of the writes: after set(item1_id, item2_id, score) the key
\* holds the score written and its age is 0
Record(wr, item1_id, item2_id, score) ==
    LET key == get_cache_key(item1_id, item2_id)
    IN [k \in DOMAIN wr \cup {key} |->
           IF k = key THEN [last |-> score, age |-> 0] ELSE wr[k]]

RECURSIVE RecordAll(_, _)
RecordAll(wr, data) ==
    IF data = <<>> THEN wr
    ELSE RecordAll(Record(wr, Head(data)[1], Head(data)[2], Head(data)[3]), Tail(data))

\* the seconds since a write, kept up to the first value past TTL
Older(age) == IF age + TickSeconds > TTL THEN TTL + 1 ELSE age + TickSeconds

\* the keys the redis server still holds after a tick: setex gave each TTL
\* seconds to live from its last write
Unexpired(st, wr) ==
    [k \in {q \in DOMAIN st : q \in DOMAIN wr => wr[q].age < TTL} |-> st[k]]

CacheInit ==
    /\ config \in Configs
    /\ use_redis = PrecomputedCompatibilityCache(config)
    /\ cache_store = EmptyFn
    /\ rows = {}
    /\ items_cache = LoadItemsCache({})
    /\ category_cache = LoadCategoryCache({})
    /\ scorer = EmptyFn
    /\ NoCall
    /\ NoSideCall

\* a thread enters a method of the cache
Enter(t, op, args) ==
    /\ client[t].st \in {"idle", "returned"}
    /\ client' = [client EXCEPT ![t] =
                     [op |-> op, args |-> args, st |-> "call", ret |-> NoReturn]]
    /\ UNCHANGED <<genVars, use_redis, cache_store, config, cache_lock, written, lookup>>

CallGet(t, a, b) == Enter(t, "get", <<<<a, b, 0>>>>)
CallSet(t, a, b, s) == Enter(t, "set", <<<<a, b, s>>>>)
CallBatchSet(t, data) == Enter(t, "batch_set", data)

\* with self.cache_lock: the lock is taken
AcquireLock(t) ==
    /\ ~use_redis
    /\ client[t].st = "call"
    /\ cache_lock = NoOwner
    /\ cache_lock' = t
    /\ client' = [client EXCEPT ![t].st = "locked"]
    /\ UNCHANGED <<genVars, use_redis, cache_store, config, written, lookup>>

\* the value get_compatibility returns from a store
GetReturn(st, args) ==
    LET r == get_compatibility(st, args[1][1], args[1][2])
    IN IF r.hit THEN [kind |-> "hit", score |-> r.score]
       ELSE [kind |-> "miss", score |-> 0]

\* lines 43-44: return self.memory_cache.get(key), the lock is released
MemoryGet(t) ==
    /\ client[t].st = "locked"
    /\ client[t].op = "get"
    /\ client' = [client EXCEPT ![t].st = "returned",
                                ![t].ret = GetReturn(cache_store, client[t].args)]
    /\ cache_lock' = NoOwner
    /\ UNCHANGED <<genVars, use_redis, cache_store, config, written, lookup>>

\* lines 55-56 and 67-70: the entries are written, the lock is released
MemoryWrite(t) ==
    /\ client[t].st = "locked"
    /\ client[t].op \in {"set", "batch_set"}
    /\ cache_store' = batch_set_compatibility(cache_store, client[t].args)
    /\ written' = RecordAll(written, client[t].args)
    /\ client' = [client EXCEPT ![t].st = "returned",
                                ![t].ret = [kind |-> "ok", score |-> 0]]
    /\ cache_lock' = NoOwner
    /\ UNCHANGED <<genVars, use_redis, config, lookup>>

\* lines 39-41 and 46: redis_client.get(key); pickle.loads of what
\* pickle.dumps made of the score gives the score back
RedisGet(t) ==
    /\ use_redis
    /\ client[t].st = "call"
    /\ client[t].op = "get"
    /\ client' = [client EXCEPT ![t].st = "returned",
                                ![t].ret = GetReturn(cache_store, client[t].args)]
    /\ UNCHANGED <<genVars, use_redis, cache_store, config, cache_lock, written, lookup>>

\* line 53, and lines 61-65: setex, or the pipeline of setex commands
RedisWrite(t) ==
    /\ use_redis
    /\ client[t].st = "call"
    /\ client[t].op \in {"set", "batch_set"}
    /\ cache_store' = batch_set_compatibility(cache_store, client[t].args)
    /\ written' = RecordAll(written, client[t].args)
    /\ client' = [client EXCEPT ![t].st = "returned",
                                ![t].ret = [kind |-> "ok", score |-> 0]]
    /\ UNCHANGED <<genVars, use_redis, config, cache_lock, lookup>>

\* the redis client raises (the connection is lost): the call ends with the
\* exception and the server has run nothing
RedisRaises(t) ==
    /\ use_redis
    /\ client[t].st = "call"
    /\ client' = [client EXCEPT ![t].st = "returned",
                                ![t].ret = [kind |-> "raised", score |-> 0]]
    /\ UNCHANGED <<genVars, use_redis, cache_store, config, cache_lock, written, lookup>>

\* TickSeconds pass: every entry is that much older, and the redis server
\* drops the keys whose time to live has run out
Tick ==
    /\ \E k \in DOMAIN written : written[k].age <= TTL
    /\ written' = [k \in DOMAIN written |-> [written[k] EXCEPT !.age = Older(@)]]
    /\ cache_store' = IF use_redis THEN Unexpired(cache_store, written')
                      ELSE cache_store
    /\ UNCHANGED <<genVars, use_redis, config, cache_lock, client, lookup>>

\* one thread uses the cache while time passes
CacheClient(t) ==
    \/ \E p \in CachePairs : CallGet(t, p[1], p[2])
    \/ \E p \in CachePairs, s \in Scores : CallSet(t, p[1], p[2], s)
    \/ \E data \in BatchData : CallBatchSet(t, data)
    \/ AcquireLock(t)
    \/ MemoryGet(t)
    \/ MemoryWrite(t)
    \/ RedisGet(t)
    \/ RedisWrite(t)
    \/ RedisRaises(t)

CacheNext ==
    \/ CacheClient(1)
    \/ Tick

CacheSpec == CacheInit /\ [][CacheNext]_vars

(***************************************************************************)
(* The race on one key: the threads of Clients compute the score of the    *)
(* pair of items 1 and 2 and set it, in either order of the arguments, and *)
(* read it, with no order between their calls.  The scorer is a function   *)
(* of its inputs, so every thread sets the same score.                     *)
(***************************************************************************)
RacePairs == {<<1, 2>>, <<2, 1>>}

RaceInit ==
    /\ config \in {[use_redis |-> TRUE, creds |-> TRUE, reachable |-> r] : r \in BOOLEAN}
    /\ use_redis = PrecomputedCompatibilityCache(config)
    /\ cache_store = EmptyFn
    /\ rows = {1, 2}
    /\ items_cache = LoadItemsCache(rows)
    /\ category_cache = LoadCategoryCache(rows)
    /\ \E s \in Scores : scorer = [p \in {<<1, 2>>} |-> s]
    /\ NoCall
    /\ NoSideCall

RaceClient(t) ==
    \/ \E p \in RacePairs : CallGet(t, p[1], p[2])
    \/ \E p \in RacePairs : CallSet(t, p[1], p[2], scorer[<<1, 2>>])
    \/ AcquireLock(t)
    \/ MemoryGet(t)
    \/ MemoryWrite(t)
    \/ RedisGet(t)
    \/ RedisWrite(t)
    \/ RedisRaises(t)

RaceNext == \E t \in Clients : RaceClient(t)

RaceSpec == RaceInit /\ [][RaceNext]_vars

(***************************************************************************)
(* ItemDatabase used directly: items are added and deleted, which rebuilds *)
(* the in-memory index from the table, and the index is asked for the      *)
(* items of a category.  The catalog has one item more than the one of the *)
(* generation calls; with NumItems = 5 that item is stored as "Pants".     *)
(***************************************************************************)
CatalogIds == 1..(NumItems + 1)

\* the categories a lookup names: those of the templates, and one written
\* with a capital
LookupCategories == {"shirt", "pants", "shoes", "top", "Pants"}

\* the limits of the callers (lines 84 and 87 of outfit_generator.py) and two
\* small ones
LookupLimits == {1, 2, 10, FetchLimit}

IndexInit ==
    /\ rows \in SUBSET CatalogIds
    /\ items_cache = LoadItemsCache(rows)
    /\ category_cache = LoadCategoryCache(rows)
    /\ config = [use_redis |-> FALSE, creds |-> FALSE, reachable |-> FALSE]
    /\ use_redis = PrecomputedCompatibilityCache(config)
    /\ cache_store = EmptyFn
    /\ scorer = EmptyFn
    /\ NoCall
    /\ NoSideCall

\* add_item_batch([item]): INSERT OR REPLACE, then _load_cache
AddItem(i) ==
    /\ i \notin rows
    /\ rows' = rows \cup {i}
    /\ items_cache' = LoadItemsCache(rows')
    /\ category_cache' = LoadCategoryCache(rows')
    /\ lookup' = NoLookup
    /\ UNCHANGED <<use_redis, cache_store, scorer, pc, seed_item_id, max_items,
                   outfit_items, required, cat_idx, candidates, task, yielded,
                   best_item, best_score, find_state, found, stats, result,
                   config, cache_lock, client, written, history, loader>>

\* delete_item(item_id): DELETE, then _load_cache
DeleteItem(i) ==
    /\ i \in rows
    /\ rows' = rows \ {i}
    /\ items_cache' = LoadItemsCache(rows')
    /\ category_cache' = LoadCategoryCache(rows')
    /\ lookup' = NoLookup
    /\ UNCHANGED <<use_redis, cache_store, scorer, pc, seed_item_id, max_items,
                   outfit_items, required, cat_idx, candidates, task, yielded,
                   best_item, best_score, find_state, found, stats, result,
                   config, cache_lock, client, written, history, loader>>

\* get_items_by_category(category, limit) is called and returns
Lookup(category, limit) ==
    /\ lookup' = [category |-> category, limit |-> limit,
                  items |-> get_items_by_category(category_cache, category, limit)]
    /\ UNCHANGED <<dbVars, use_redis, cache_store, scorer, pc, seed_item_id,
                   max_items, outfit_items, required, cat_idx, candidates, task,
                   yielded, best_item, best_score, find_state, found, stats,
                   result, config, cache_lock, client, written, history,
                   loader>>

IndexNext ==
    \/ \E i \in CatalogIds : AddItem(i)
    \/ \E i \in CatalogIds : DeleteItem(i)
    \/ \E category \in LookupCategories, limit \in LookupLimits : Lookup(category, limit)

IndexSpec == IndexInit /\ [][IndexNext]_vars

(***************************************************************************)
(* Vocabulary of the properties.                                           *)
(***************************************************************************)
NoDuplicates(seq) == \A m, n \in 1..Len(seq) : m # n => seq[m] # seq[n]

\* the call has returned an outfit
Returned == pc = "done" /\ result.kind = "ok"

\* the futures of the last find whose computation returned an average
Completed == {c \in DOMAIN task : task[c].st = "done"}
Avg(c) == Mean(task[c].scores)

\* c has the greatest average among the completed candidates
IsBest(c) == c \in Completed /\ \A d \in Completed : ~Greater(Avg(d), Avg(c))

\* the computation of c took longer than the per-candidate deadline
Late(c) == task[c].elapsed > Deadline

\* the template of the seed of the current call (empty when it has none)
SeedTemplate ==
    IF seed_item_id \in DOMAIN items_cache
    THEN TemplateGet(items_cache[seed_item_id])
    ELSE [found |-> FALSE, cats |-> <<>>]

(***************************************************************************)
(* C1.  The outfit built by generate_outfit_fast never holds two items     *)
(* with the same id: at every moment of the call, and in the result        *)
(* returned, the ids are pairwise different, so every item appended by a   *)
(* category step differs from the seed and from the items appended before. *)
(***************************************************************************)
C1_NoDuplicateIds ==
    /\ NoDuplicates(outfit_items)
    /\ NoDuplicates(result.items)

\* a call has returned the seed and two selected items
C1_Witness == Returned /\ result.item_count = 3 /\ result.items[1] = seed_item_id

(***************************************************************************)
(* C2.  With max_items >= 1 the outfit never holds more than max_items     *)
(* items nor more than 1 + len(template) items, in the result and at every *)
(* moment of the call, and no selection is started for a further category  *)
(* once the outfit holds max_items items.                                  *)
(***************************************************************************)
C2_AtMostMaxItems ==
    /\ pc # "idle" =>
          /\ Len(outfit_items) <= max_items
          /\ Len(outfit_items) <= 1 + Len(SeedTemplate.cats)
    /\ Returned =>
          /\ result.item_count <= max_items
          /\ Len(result.items) <= max_items
          /\ Len(result.items) <= 1 + Len(SeedTemplate.cats)
    /\ pc = "collect" => Len(outfit_items) < max_items

\* the loop has stopped at max_items with a category of the template left
C2_Witness ==
    /\ Returned
    /\ result.item_count = max_items
    /\ max_items > 1
    /\ cat_idx <= Len(required)

(***************************************************************************)
(* C3.  Timeout exclusion: when _find_compatible_item_fast returns an      *)
(* item, the computation of that item did not take longer than the         *)
(* per-candidate deadline.                                                 *)
(***************************************************************************)
C3_LateNeverReturned ==
    find_state = "returned" /\ found # NoItem => ~Late(found)

\* the scorer call of one candidate hangs, the computations of the other
\* candidates have ended and one of them at least has completed
OneHung ==
    /\ pc = "collect"
    /\ \E c \in DOMAIN task :
          /\ task[c].st = "hung"
          /\ \A d \in DOMAIN task \ {c} : task[d].st \in Finished
          /\ \E d \in DOMAIN task \ {c} : task[d].st = "done"

(***************************************************************************)
(* C4.  Non-blocking selection: once the scorer call of one candidate      *)
(* hangs and the computations of all the other candidates have finished,   *)
(* _find_compatible_item_fast eventually returns.                          *)
(***************************************************************************)
C4_SlowCandidateDoesNotBlock == OneHung ~> (pc # "collect")

(***************************************************************************)
(* C5.  _find_compatible_item_fast returns None only when no candidate is  *)
(* eligible or none completed its computation; when at least one           *)
(* completed, whatever its average in [0,1], the candidate with the        *)
(* greatest completed average is returned.                                 *)
(***************************************************************************)
C5_AbsentOnlyWhenNoneCompleted ==
    find_state = "returned" =>
        IF Completed = {} THEN found = NoItem ELSE IsBest(found)

\* no two completed candidates have the same average
DistinctAverages ==
    \A c, d \in Completed : c # d => ~SameAvg(Avg(c), Avg(d))

(***************************************************************************)
(* C6.  Order independence: when the completed candidates have pairwise    *)
(* distinct averages, the item _find_compatible_item_fast returns is the   *)
(* one with the greatest average, in whatever order as_completed yielded   *)
(* the futures; with two or more such candidates an item is returned.      *)
(***************************************************************************)
C6_MaxWhateverOrder ==
    find_state = "returned" /\ DistinctAverages =>
        /\ found # NoItem => IsBest(found)
        /\ Cardinality(Completed) >= 2 => found # NoItem

\* the candidate with the greatest average was yielded first, one with a
\* smaller average after it, and the first one is returned
C6_Witness ==
    /\ find_state = "returned"
    /\ DistinctAverages
    /\ Len(yielded) >= 2
    /\ {yielded[1], yielded[2]} \subseteq Completed
    /\ Greater(Avg(yielded[1]), Avg(yielded[2]))
    /\ Greater(Avg(yielded[2]), InitialBestScore)
    /\ found = yielded[1]

(***************************************************************************)
(* C7.  A seed id unknown to the index ends the call with ValueError       *)
(* before any lookup by category, scorer call or cache write, and a call   *)
(* ends with ValueError only then; no other failure ends the call: the     *)
(* exception of a scoring task, raised by the scorer or by the cache,      *)
(* stays in its future.                                                    *)
(***************************************************************************)
C7_OnlySeedLookupEscapes ==
    /\ result.kind \in {"none", "ok", "ValueError"}
    /\ pc = "done" =>
          (result.kind = "ValueError" <=> seed_item_id \notin DOMAIN items_cache)
    /\ result.kind = "ValueError" =>
          /\ stats = NoStats
          /\ task = EmptyFn
          /\ cache_store = EmptyFn
          /\ scorer = EmptyFn

\* the call has returned an outfit of two items or more although one of its
\* tasks failed in the scorer and another in the cache
C7_Witness ==
    /\ Returned
    /\ result.item_count >= 2
    /\ stats.scorer_failures > 0
    /\ stats.cache_failures > 0

(***************************************************************************)
(* C8.  ScoringFailure isolation: when the scorer raised for a candidate   *)
(* of the selection that has just returned, the computations of all the    *)
(* other candidates have run to their end, the best of those that          *)
(* completed is the item returned, and the loop over the categories goes   *)
(* on.                                                                     *)
(***************************************************************************)
C8_ScoringFailureIsolated ==
    find_state = "returned" /\ (\E c \in DOMAIN task : task[c].err = "ScoringFailure") =>
        /\ \A d \in DOMAIN task : task[d].st \in Finished
        /\ IF Completed = {} THEN found = NoItem ELSE IsBest(found)
        /\ pc \in {"loop", "done"}
        /\ result.kind \in {"none", "ok"}

\* the seed is stored and its lower-cased category is no key of the table
SeedWithoutTemplate ==
    /\ seed_item_id \in DOMAIN items_cache
    /\ Lower(items_cache[seed_item_id]) \notin TemplateKeys

(***************************************************************************)
(* C9.  A call whose seed is stored and whose lower-cased category is no   *)
(* key of the template table returns exactly the seed, with count 1, as a  *)
(* normal result.                                                          *)
(***************************************************************************)
C9_NoTemplateSeedOnly ==
    pc # "idle" /\ SeedWithoutTemplate =>
        /\ pc = "done"
        /\ result = [kind |-> "ok", items |-> <<seed_item_id>>, item_count |-> 1]

\* such a call has been made while items of other categories are stored
C9_Witness ==
    /\ pc = "done"
    /\ SeedWithoutTemplate
    /\ result.item_count = 1
    /\ Cardinality(rows) >= 3

\* the categories of seq are those of a subsequence of cats, in order
RECURSIVE FollowsTemplate(_, _)
FollowsTemplate(seq, cats) ==
    IF seq = <<>> THEN TRUE
    ELSE IF cats = <<>> THEN FALSE
    ELSE IF Lower(CategoryOf(Head(seq))) = Head(cats)
         THEN FollowsTemplate(Tail(seq), Tail(cats))
         ELSE FollowsTemplate(seq, Tail(cats))

\* the shape of a returned outfit
C10_Shape ==
    Returned =>
        /\ Len(result.items) >= 1
        /\ result.items[1] = seed_item_id
        /\ result.item_count = Len(result.items)
        /\ FollowsTemplate(Tail(result.items), SeedTemplate.cats)

\* the scenario: the catalog, the seed, a scorer that returned for every
\* pair it was asked and favours 3 over 2 against 1, no task failed
Scenario ==
    /\ seed_item_id = 1
    /\ 1 \in DOMAIN items_cache
    /\ items_cache[1] = "shirt"
    /\ get_items_by_category(category_cache, "pants", FetchLimit) = <<2, 3>>
    /\ get_items_by_category(category_cache, "shoes", FetchLimit) = <<4>>
    /\ max_items >= 3
    /\ {<<1, 2>>, <<1, 3>>} \subseteq DOMAIN scorer
    /\ scorer[<<1, 3>>] > scorer[<<1, 2>>]
    /\ stats.scorer_failures = 0
    /\ stats.cache_failures = 0

(***************************************************************************)
(* C10.  Result shape: the outfit returned starts with the seed, the other *)
(* items follow the order of the template of the seed's category, at most  *)
(* one per category and each of its category, and item_count is the number *)
(* of items.  With seed 1 (shirt), pants = {2, 3}, shoes = {4} and a       *)
(* scorer that favours 3 over 2 against 1, the result is [1, 3, 4] with    *)
(* count 3.                                                                *)
(***************************************************************************)
C10_ShapeAndScenario ==
    /\ C10_Shape
    /\ Returned /\ Scenario =>
          result = [kind |-> "ok", items |-> <<1, 3, 4>>, item_count |-> 3]

\* the stored items of category cat, letter case ignored, other than the seed
OfCategory(cat) == {i \in rows : Lower(CategoryOf(i)) = cat}

\* a call is under way or has ended, its seed has a template with a category
\* other than its own, and no required category has an item to offer
NoEligibleCandidate ==
    /\ pc # "idle"
    /\ SeedTemplate.found
    /\ required # <<>>
    /\ \A n \in 1..Len(required) : OfCategory(required[n]) \ {seed_item_id} = {}

(***************************************************************************)
(* C11.  When no required category has an eligible candidate (the category *)
(* is empty, or its items are all in the outfit), the call returns exactly *)
(* the seed with count 1, no scoring task is ever submitted and the scorer *)
(* is not called.                                                          *)
(***************************************************************************)
C11_NoCandidateSeedOnly ==
    NoEligibleCandidate =>
        /\ outfit_items = <<seed_item_id>>
        /\ pc \in {"loop", "done"}
        /\ task = EmptyFn
        /\ stats.scorer_calls = 0
        /\ scorer = EmptyFn
        /\ pc = "done" =>
              result = [kind |-> "ok", items |-> <<seed_item_id>>, item_count |-> 1]

\* such a call has looked up two categories or more, found nothing in any,
\* and returned, while items of other categories are stored
C11_Witness ==
    /\ Returned
    /\ NoEligibleCandidate
    /\ Len(required) >= 2
    /\ stats.lookups = Len(required)
    /\ Cardinality(rows) >= 2

\* thread t returns from a call of get_compatibility in this step
GetReturns(t) ==
    /\ client[t].st # "returned"
    /\ client'[t].st = "returned"
    /\ client'[t].op = "get"
    /\ client'[t].ret.kind # "raised"

\* what a get of the pair <<a, b>> must give back according to the writes:
\* nothing for a key never set, the last score set for a key set less than TTL
\* seconds ago
Agrees(wr, a, b, ret) ==
    LET key == get_cache_key(a, b)
    IN /\ key \notin DOMAIN wr => ret.kind = "miss"
       /\ key \in DOMAIN wr /\ wr[key].age < TTL =>
             ret = [kind |-> "hit", score |-> wr[key].last]

\* the store answers every pair, in both orders, as the writes say
StoreAgrees ==
    \A p \in CachePairs :
        /\ get_cache_key(p[1], p[2]) = get_cache_key(p[2], p[1])
        /\ Agrees(written, p[1], p[2], GetReturn(cache_store, <<<<p[1], p[2], 0>>>>))
        /\ GetReturn(cache_store, <<<<p[1], p[2], 0>>>>)
              = GetReturn(cache_store, <<<<p[2], p[1], 0>>>>)

(***************************************************************************)
(* C12.  Cache round trip: the key of a pair does not depend on the order  *)
(* of the two ids; after set(a, b, s) a get of the pair, in either order,  *)
(* returns s until another set or batch set overwrites the entry or TTL    *)
(* seconds have passed; a get of a pair never set returns None.            *)
(***************************************************************************)
C12_RoundTrip ==
    /\ []StoreAgrees
    /\ [][\A t \in Clients :
              GetReturns(t) =>
                  Agrees(written, client'[t].args[1][1], client'[t].args[1][2],
                         client'[t].ret)]_vars

\* get(2, 1) has returned the score 1 of an entry that is not fresh, and the
\* other key has not been set
C12_Witness ==
    /\ client[1].st = "returned"
    /\ client[1].op = "get"
    /\ client[1].args = <<<<2, 1, 0>>>>
    /\ client[1].ret = [kind |-> "hit", score |-> 1]
    /\ <<1, 2>> \in DOMAIN written
    /\ written[<<1, 2>>].age > 0
    /\ <<1, 3>> \notin DOMAIN written

(***************************************************************************)
(* C13.  TTL expiry: with either backend, an entry set more than TTL       *)
(* seconds ago and not set again since behaves as absent, a get of its     *)
(* pair returns None.                                                      *)
(***************************************************************************)
C13_ExpiredIsAbsent ==
    \A p \in CachePairs :
        LET key == get_cache_key(p[1], p[2])
        IN key \in DOMAIN written /\ written[key].age > TTL =>
               GetReturn(cache_store, <<<<p[1], p[2], 0>>>>).kind = "miss"

\* the score every thread of the race computes for the pair
RaceScore == scorer[<<1, 2>>]

(***************************************************************************)
(* C14.  Concurrent writes of one key: while several threads set the pair  *)
(* of items 1 and 2 to the score the scorer gives it, and others read it,  *)
(* every get has returned None or that score, the cache holds no other     *)
(* value, and once a set has returned the key holds that score.            *)
(***************************************************************************)
C14_SameScoreRace ==
    /\ \A t \in Clients :
          client[t].st = "returned" /\ client[t].op = "get" =>
              \/ client[t].ret.kind \in {"miss", "raised"}
              \/ client[t].ret = [kind |-> "hit", score |-> RaceScore]
    /\ \A k \in DOMAIN cache_store : k = <<1, 2>> /\ cache_store[k] = RaceScore
    /\ <<1, 2>> \in DOMAIN written =>
          \A p \in RacePairs :
              GetReturn(cache_store, <<<<p[1], p[2], 0>>>>)
                  = [kind |-> "hit", score |-> RaceScore]

\* the key has been set, one thread holds the lock inside a further set of
\* it while another waits to set it with the ids in the other order
C14_Witness ==
    /\ <<1, 2>> \in DOMAIN written
    /\ RaceScore > 0
    /\ \E t, u \in Clients :
          /\ t # u
          /\ client[t].op = "set" /\ client[t].st = "locked"
          /\ client[u].op = "set" /\ client[u].st = "call"
          /\ client[t].args[1][1] # client[u].args[1][1]

\* the cache was built for redis, with the credentials, and the ping failed
FellBack == config.use_redis /\ config.creds /\ ~config.reachable

\* no call of the cache has ended with an exception
NoneRaised == \A t \in Clients : client[t].ret.kind # "raised"

(***************************************************************************)
(* C17.  Backend fallback: a cache built for redis whose ping fails ends   *)
(* construction with use_redis false; from then on no call raises, every   *)
(* get returns what set and batch_set wrote, and use_redis, decided by the *)
(* constructor alone, never changes, whatever calls follow.                *)
(***************************************************************************)
C17_FallbackOnce ==
    /\ [](FellBack => ~use_redis /\ NoneRaised /\ StoreAgrees)
    /\ [][use_redis' = use_redis /\ config' = config]_vars
    /\ [][\A t \in Clients :
              FellBack /\ GetReturns(t) =>
                  Agrees(written, client'[t].args[1][1], client'[t].args[1][2],
                         client'[t].ret)]_vars

\* after the fallback both keys have been set and a get has returned a score
C17_Witness ==
    /\ FellBack
    /\ {<<1, 2>>, <<1, 3>>} \subseteq DOMAIN written
    /\ client[1].st = "returned"
    /\ client[1].op = "get"
    /\ client[1].ret.kind = "hit"
    /\ cache_lock = NoOwner

\* the stored items whose category is the one asked for, letter case
\* ignored, in row order, truncated to the limit
SameCategoryIgnoringCase(category, limit) ==
    Take(Ascending({i \in rows : Lower(CategoryOf(i)) = Lower(category)}), limit)

(***************************************************************************)
(* C15.  Case-insensitive lookup: get_items_by_category(category, limit)   *)
(* returns the stored items whose category equals the one asked for,       *)
(* letter case ignored, truncated to limit; an item stored as "Pants" is   *)
(* among the items returned for "pants".                                   *)
(***************************************************************************)
C15_CaseInsensitiveLookup ==
    lookup # NoLookup =>
        lookup.items = SameCategoryIgnoringCase(lookup.category, lookup.limit)

\* the current item the task of candidate c is at
CurrentOf(c) == outfit_items[task[c].i]

\* a get of the pair, in either order of the ids, hits with the score s
HitsBothWays(st, a, b, s) ==
    /\ get_compatibility(st, a, b) = [hit |-> TRUE, score |-> s]
    /\ get_compatibility(st, b, a) = [hit |-> TRUE, score |-> s]

\* the task of candidate c takes a step
TaskSteps(c) == c \in DOMAIN task /\ c \in DOMAIN task' /\ task'[c] # task[c]

\* the scorer is invoked only after a miss, a hit is appended as it is and
\* leaves the scorer alone, and the set after a scorer call writes its score
CacheAsideStep(c) ==
    /\ task[c].st = "predict" /\ task'[c].st \in {"set", "raised", "hung"} =>
          ~get_compatibility(cache_store, c, CurrentOf(c)).hit
    /\ task[c].st = "get" /\ get_compatibility(cache_store, c, CurrentOf(c)).hit
          /\ task'[c].st # "raised" =>
          /\ task'[c].scores =
                 Append(task[c].scores, get_compatibility(cache_store, c, CurrentOf(c)).score)
          /\ scorer' = scorer
          /\ stats'.scorer_calls = stats.scorer_calls
          /\ cache_store' = cache_store
    /\ task[c].st = "get" /\ ~get_compatibility(cache_store, c, CurrentOf(c)).hit
          /\ task'[c].st # "raised" =>
          /\ task'[c].st = "predict"
          /\ task'[c].scores = task[c].scores
    /\ task[c].st = "set" /\ task'[c].st # "raised" =>
          /\ <<CurrentOf(c), c>> \in DOMAIN scorer
          /\ task[c].pend = scorer[<<CurrentOf(c), c>>]
          /\ task'[c].scores = Append(task[c].scores, task[c].pend)
          /\ HitsBothWays(cache_store', c, CurrentOf(c), task[c].pend)

(***************************************************************************)
(* C16.  Cache-aside: in the computation of a candidate the scorer is      *)
(* called for a pair only when the get of the pair returned None; a hit is *)
(* used as the score of the pair and the scorer is not called; the score   *)
(* of every scorer call that returned is set under the key of the pair,    *)
(* so that every pair score a task has taken is in the cache, for a get    *)
(* with the ids in either order.                                           *)
(***************************************************************************)
C16_CacheAside ==
    /\ [][\A c \in Ids : TaskSteps(c) => CacheAsideStep(c)]_vars
    /\ [](\A c \in DOMAIN task :
             /\ task[c].st \in {"predict", "set", "hung"} =>
                   ~get_compatibility(cache_store, c, CurrentOf(c)).hit
             /\ \A j \in 1..Len(task[c].scores) :
                   HitsBothWays(cache_store, c, outfit_items[j], task[c].scores[j]))

\* seed 4 with the outfit [4, 1]: the task of candidate 2 found the pair with
\* item 1 in the cache and had the pair with item 4 scored and set
C16_Witness ==
    /\ pc = "collect"
    /\ outfit_items = <<4, 1>>
    /\ 2 \in DOMAIN task
    /\ task[2].st = "done"
    /\ Len(task[2].scores) = 2
    /\ <<4, 2>> \in DOMAIN scorer
    /\ <<2, 4>> \in DOMAIN cache_store
    /\ <<1, 2>> \in DOMAIN cache_store
    /\ stats.scorer_calls = 2
    /\ DOMAIN task = {2}

\* the outfit the tasks of the current or last selection were given: the
\* outfit without the item that selection has appended since
OutfitOfFind ==
    IF pc # "collect" /\ find_state = "returned" /\ found # NoItem
    THEN SubSeq(outfit_items, 1, Len(outfit_items) - 1)
    ELSE outfit_items

\* the score of the pair of candidate c and the j-th item of the outfit: the
\* entry of the cache, which is the hit the task took or the scorer result it
\* set
PairScore(c, j) == cache_store[get_cache_key(c, outfit_items[j])]

RECURSIVE SumOfPairScores(_, _)
SumOfPairScores(c, k) ==
    IF k = 0 THEN 0 ELSE PairScore(c, k) + SumOfPairScores(c, k - 1)

\* the average of candidate c over the k items of the outfit
WholeOutfitAverage(c, k) == [num |-> SumOfPairScores(c, k), den |-> k]

(***************************************************************************)
(* C18.  Average over the whole current outfit: the computation of a       *)
(* candidate that ran to its end took exactly one score for each of the k  *)
(* items the outfit held when the selection started, the seed and every    *)
(* item selected before, each the cached score of the pair (the hit, or    *)
(* the scorer result set after the miss), and the value compared for it,   *)
(* best_score when it is the best so far, is their sum divided by k.       *)
(***************************************************************************)
C18_AverageOverOutfit ==
    find_state # "none" =>
        LET k == Len(OutfitOfFind)
        IN /\ \A c \in DOMAIN task :
                 task[c].st = "done" =>
                     /\ Len(task[c].scores) = k
                     /\ \A j \in 1..k :
                           /\ get_cache_key(c, outfit_items[j]) \in DOMAIN cache_store
                           /\ task[c].scores[j] = PairScore(c, j)
           /\ best_item # NoItem =>
                 /\ k >= 1
                 /\ best_score = WholeOutfitAverage(best_item, k)

\* with the outfit [4, 1] candidate 2 is the best so far with the average
\* 1/2: the cached 0 with item 1 or 4, the score 1 with the other
C18_Witness ==
    /\ pc = "collect"
    /\ outfit_items = <<4, 1>>
    /\ best_item = 2
    /\ best_score = [num |-> 1, den |-> 2]
    /\ PairScore(2, 1) # PairScore(2, 2)

\* every scoring task submitted so far has ended, with a value or an exception
AllTasksEnded == \A c \in DOMAIN task : task[c].st \in {"done", "raised"}

\* the step submits the tasks of the next category
SubmitsTasks == pc = "loop" /\ pc' = "collect"

\* the step decides the selection of the current category
DecidesSelection == pc = "collect" /\ pc' = "loop"

(***************************************************************************)
(* C19.  Strictly sequential stages: a scoring task runs only while the    *)
(* selection of its own category is under way; the tasks of a category are *)
(* submitted only after every task of the category before has ended and    *)
(* its selection is decided; the categories are taken one by one in the    *)
(* order of the template; the outfit changes only when a selection is      *)
(* decided, by the item selected, so that the tasks of a category score    *)
(* against the seed and every item chosen for the categories before.       *)
(***************************************************************************)
C19_SequentialStages ==
    /\ [](pc # "collect" => AllTasksEnded)
    /\ [](pc = "collect" =>
             /\ cat_idx <= Len(required)
             /\ \A c \in DOMAIN task : Lower(CategoryOf(c)) = required[cat_idx]
             /\ Len(outfit_items) <= cat_idx)
    /\ [][SubmitsTasks =>
             /\ AllTasksEnded
             /\ outfit_items' = outfit_items
             /\ cat_idx' = cat_idx
             /\ \A c \in DOMAIN task' : task'[c].st = "queued"]_vars
    /\ [][DecidesSelection =>
             /\ AllTasksEnded
             /\ cat_idx' = cat_idx + 1
             /\ outfit_items' = IF found' # NoItem THEN Append(outfit_items, found')
                                ELSE outfit_items]_vars
    /\ [][pc # "idle" /\ ~DecidesSelection =>
             /\ outfit_items' = outfit_items
             /\ cat_idx' \in {cat_idx, cat_idx + 1}]_vars

\* the selection of the second category is under way: its task is in the
\* scorer with the item chosen for the first category in the outfit
C19_Witness ==
    /\ pc = "collect"
    /\ cat_idx = 2
    /\ Len(outfit_items) = 2
    /\ Lower(CategoryOf(outfit_items[2])) = required[1]
    /\ \E c \in DOMAIN task : task[c].st = "predict" /\ task[c].i = 2

\* the scorer call of a task of the selection under way has run past the
\* deadline and does not return
PastDeadline == pc = "collect" /\ \E c \in DOMAIN task : task[c].st = "hung"

\* _find_compatible_item_fast has returned its decision while a task it
\* submitted has not ended
ReturnedWhileRunning ==
    /\ find_state = "returned"
    /\ \E c \in DOMAIN task : task[c].st \notin {"done", "raised"}

(***************************************************************************)
(* C20.  Background completion: the deadline of a candidate does not       *)
(* cancel its task and does not hold the selector: when the scorer call of *)
(* a task runs past the deadline, _find_compatible_item_fast returns its   *)
(* decision while that task is still running, free to end and to write to  *)
(* the cache afterwards.                                                   *)
(***************************************************************************)
C20_BackgroundCompletion == PastDeadline ~> ReturnedWhileRunning

(***************************************************************************)
(* A find with more candidates than the executor has threads.  The catalog *)
(* holds pants and max_workers + 1 shoes, the seed is the pants: the find  *)
(* for 'shoes' submits max_workers + 1 futures.  The cache is the memory   *)
(* backend and the scorer returns at once.                                 *)
(***************************************************************************)
PoolShoes == {4} \cup 7..(6 + max_workers)
PoolRows == {2} \cup PoolShoes

PoolInit ==
    /\ rows = PoolRows
    /\ items_cache = LoadItemsCache(rows)
    /\ category_cache = LoadCategoryCache(rows)
    /\ config = [use_redis |-> FALSE, creds |-> FALSE, reachable |-> FALSE]
    /\ use_redis = PrecomputedCompatibilityCache(config)
    /\ cache_store = EmptyFn
    /\ scorer = EmptyFn
    /\ NoCall
    /\ NoSideCall

PoolThread ==
    \/ GenerateOutfit(2, MaxMaxItems)
    \/ ReturnOutfit
    \/ FindNoCandidate
    \/ FindSubmit
    \/ \E c \in PoolShoes : Collect(c)
    \/ FinishFind

PoolWorker(c) ==
    \/ StartTask(c)
    \/ TaskCacheGet(c)
    \/ \E s \in Scores : TaskPredictReturns(c, s, 0)
    \/ TaskCacheSet(c)

PoolNext ==
    \/ PoolThread
    \/ \E c \in PoolShoes : PoolWorker(c)

PoolSpec == PoolInit /\ [][PoolNext]_vars

\* C21: at any moment at most max_workers tasks of a find are running,
\* however many candidates the working set holds
C21_BoundedParallelism ==
    Cardinality(Running) <= max_workers

\* every thread of the pool runs a task while another candidate waits
C21_Witness ==
    /\ Cardinality(Running) = max_workers
    /\ \E c \in DOMAIN task : task[c].st = "queued"
    /\ Len(candidates) > max_workers

(***************************************************************************)
(* _find_compatible_item_fast called on large categories.  The catalog     *)
(* holds a shirt, pants and a shelf of shoes, ids 7, 8, ... in row order;  *)
(* the shelf is shorter than, as long as, or longer than the working set   *)
(* and the fetch limit.  The method is called with a list of stored items  *)
(* and a category.  The executor is followed for the pants and the first  *)
(* shoes only: the other futures stay in its queue.                        *)
(***************************************************************************)
ShelfSizes ==
    {1, 2, WorkingSetCap, WorkingSetCap + 1, WorkingSetCap + 2, FetchLimit + 2}

Shelf(n) == [j \in 1..n |-> 6 + j]

\* the items a caller may pass as current_items: the shirt, the pants, the
\* first shoes of the shelf and the ones around the end of the working set
Probes == {1, 2, 7, 8, 6 + WorkingSetCap, 7 + WorkingSetCap}

CurrentLists ==
    {<<a>> : a \in Probes}
    \cup ({<<a, b>> : a \in Probes, b \in Probes} \ {<<a, a>> : a \in Probes})

SelectInit ==
    /\ \E n \in ShelfSizes :
          /\ rows = {1, 2} \cup Range(Shelf(n))
          /\ category_cache = [cat \in {"shirt", "pants", "shoes"} |->
                                  CASE cat = "shirt" -> <<1>>
                                    [] cat = "pants" -> <<2>>
                                    [] OTHER -> Shelf(n)]
    /\ items_cache = LoadItemsCache(rows)
    /\ config = [use_redis |-> FALSE, creds |-> FALSE, reachable |-> FALSE]
    /\ use_redis = PrecomputedCompatibilityCache(config)
    /\ cache_store = EmptyFn
    /\ scorer = EmptyFn
    /\ NoCall
    /\ NoSideCall

\* _find_compatible_item_fast(current_items, target_category) is entered with
\* a list that is not empty (the general case; lines 81-85 serve the empty
\* list): the variables of the loop of line 62 hold the arguments of the call
CallFind(current_items, target_category) ==
    /\ pc = "idle"
    /\ Range(current_items) \subseteq rows
    /\ pc' = "loop"
    /\ seed_item_id' = current_items[1]
    /\ max_items' = Len(current_items) + 1
    /\ outfit_items' = current_items
    /\ required' = <<target_category>>
    /\ cat_idx' = 1
    /\ UNCHANGED <<sideVars, dbVars, use_redis, cache_store, scorer, findVars,
                   stats, result>>

SelectWorker(c) ==
    \/ StartTask(c)
    \/ TaskCacheGet(c)
    \/ \E s \in Scores : TaskPredictReturns(c, s, 0)
    \/ TaskCacheSet(c)

SelectNext ==
    \/ \E current_items \in CurrentLists, target_category \in {"pants", "shoes"} :
          CallFind(current_items, target_category)
    \/ FindNoCandidate
    \/ FindSubmit
    \/ \E c \in Range(Shelf(1)) \cup {2} : SelectWorker(c)
    \/ \E c \in Range(Shelf(1)) \cup {2} : Collect(c)
    \/ FinishFind

SelectSpec == SelectInit /\ [][SelectNext]_vars

\* the whole list the index holds for a category, in row order
StoredList(category) ==
    IF Lower(category) \in DOMAIN category_cache
    THEN category_cache[Lower(category)]
    ELSE <<>>

\* the positions of a list that items of the outfit occupy
TakenBy(list, current_items) ==
    {k \in 1..Len(list) : list[k] \in Range(current_items)}

\* C22: the working set of a find is the first 100 of the fetched candidates
\* that are not in the outfit, in their order: an item of the outfit takes no
\* place, and no item outside the working set gets a task, is scored, becomes
\* best_item or is returned
C22_BoundedWorkingSet ==
    /\ pc = "collect" =>
          LET list == StoredList(required[cat_idx])
              taken == TakenBy(list, outfit_items)
              fetched == IF Len(list) < FetchLimit THEN Len(list) ELSE FetchLimit
              total == fetched - Cardinality({k \in taken : k <= fetched})
          IN /\ Len(candidates) = IF total < WorkingSetCap THEN total
                                  ELSE WorkingSetCap
             /\ \A n \in 1..Len(candidates) :
                   \E j \in n..(n + Len(outfit_items)) :
                       /\ j <= fetched
                       /\ j \notin taken
                       /\ candidates[n] = list[j]
                       /\ j - Cardinality({k \in taken : k < j}) = n
             /\ DOMAIN task = Range(candidates)
             /\ best_item \in Range(candidates) \cup {NoItem}
    /\ \A p \in DOMAIN scorer : p[2] \in Range(candidates)
    /\ find_state = "returned" => found \in Range(candidates) \cup {NoItem}

\* the first item of the category is in the outfit and more than 100 others
\* are stored: the working set is items 2 to 101 of the list
C22_Witness ==
    /\ pc = "collect"
    /\ LET list == StoredList(required[cat_idx])
       IN /\ Len(list) > WorkingSetCap + 1
          /\ list[1] \in Range(outfit_items)
          /\ Len(candidates) = WorkingSetCap
          /\ candidates[WorkingSetCap] = list[WorkingSetCap + 1]
          /\ list[WorkingSetCap + 2] \notin DOMAIN task

(***************************************************************************)
(* Requests served one after the other by a process that may be restarted. *)
(* The catalog holds pants (2) and two shoes (4, 7); the seeds are the     *)
(* pants, whose find scores the shoes as candidates, and the shoes 4,      *)
(* whose find scores the pants as candidate: items 2 and 4 meet in both    *)
(* roles.  The scorer is a fixed function of the ordered pair, as the      *)
(* network of outfit_compatibility_model.py is (its two inputs are         *)
(* normalised apart, concatenated and subtracted): it need not be          *)
(* symmetric.  It gives positive scores and no two candidates of a find    *)
(* the same one, so that a selection never depends on a tie or on a zero   *)
(* average.  The cache is the memory backend.                              *)
(***************************************************************************)
RoleRows == {2, 4, 7}
RoleSeeds == {2, 4}
RolePairs == {<<2, 4>>, <<2, 7>>, <<4, 2>>}

\* the levels of score of this scorer, all positive
RoleScores == 1..(MaxScore + 2)

RoleInit ==
    /\ rows = RoleRows
    /\ items_cache = LoadItemsCache(rows)
    /\ category_cache = LoadCategoryCache(rows)
    /\ config = [use_redis |-> FALSE, creds |-> FALSE, reachable |-> FALSE]
    /\ use_redis = PrecomputedCompatibilityCache(config)
    /\ cache_store = EmptyFn
    /\ scorer \in [RolePairs -> RoleScores]
    /\ scorer[<<2, 7>>] \notin {scorer[<<2, 4>>], scorer[<<4, 2>>]}
    /\ NoCall
    /\ NoSideCall

\* the request has been answered and the thread takes the next one
NextRequest ==
    /\ pc = "done"
    /\ pc' = "idle"
    /\ history' = [fresh |-> FALSE,
                   log |-> history.log \cup
                       {[seed |-> seed_item_id, max_items |-> max_items,
                         cold |-> history.fresh, outfit |-> result.items]}]
    /\ UNCHANGED <<config, cache_lock, client, written, lookup, loader, dbVars,
                   use_redis, cache_store, scorer, callVars, outfit_items,
                   cat_idx, findVars, stats, result>>

\* the process is restarted between two requests: initialize_api builds a new
\* PrecomputedCompatibilityCache, whose memory_cache is empty; the database
\* and the weights of the model are read again from their files
Restart ==
    /\ pc = "idle"
    /\ ~use_redis
    /\ cache_store # EmptyFn
    /\ cache_store' = EmptyFn
    /\ history' = [history EXCEPT !.fresh = TRUE]
    /\ UNCHANGED <<config, cache_lock, client, written, lookup, loader, dbVars,
                   use_redis, scorer, pc, callVars, outfit_items, cat_idx,
                   findVars, stats, result>>

RoleThread ==
    \/ \E sid \in RoleSeeds : GenerateOutfit(sid, MaxMaxItems)
    \/ ReturnOutfit
    \/ FindNoCandidate
    \/ FindSubmit
    \/ \E c \in RoleRows : Collect(c)
    \/ FinishFind
    \/ NextRequest
    \/ Restart

RoleWorker(c) ==
    \/ StartTask(c)
    \/ TaskCacheGet(c)
    \/ \E s \in RoleScores : TaskPredictReturns(c, s, 0)
    \/ TaskCacheSet(c)

RoleNext ==
    \/ RoleThread
    \/ \E c \in RoleRows : RoleWorker(c)

RoleSpec == RoleInit /\ [][RoleNext]_vars

\* C23: the outfit returned for a seed is the same whether the call started
\* with an empty cache or with the cache that earlier calls have filled, for
\* every scorer
C23_CacheIndependence ==
    \A h1 \in history.log, h2 \in history.log :
        /\ h1.seed = h2.seed
        /\ h1.max_items = h2.max_items
        /\ h1.cold
        /\ ~h2.cold
        => h1.outfit = h2.outfit

(***************************************************************************)
(* A generation request served while another request of the threaded       *)
(* server adds or deletes an item.  add_item_batch and delete_item commit  *)
(* the change to the table and call _load_cache, which reads the rows,     *)
(* clears the two dictionaries in place and fills them again row by row:   *)
(* each statement is a step of its own, and the request thread reads the   *)
(* dictionaries as they are at that moment, without a lock.  Items 1, 2    *)
(* and 4 are stored throughout; the other thread adds and deletes items 3  *)
(* (pants) and 5 (scarf).  The cache is the memory backend and the scorer  *)
(* returns at once.                                                        *)
(***************************************************************************)
Stable == {1, 2, 4}
Volatile == {3, 5}

\* everything but the table, the two dictionaries and the loader
notDb == <<config, cache_lock, client, written, lookup, history, use_redis,
           cache_store, scorer, pc, callVars, outfit_items, cat_idx, findVars,
           stats, result>>

UpdateInit ==
    /\ \E V \in SUBSET Volatile : rows = Stable \cup V
    /\ items_cache = LoadItemsCache(rows)
    /\ category_cache = LoadCategoryCache(rows)
    /\ config = [use_redis |-> FALSE, creds |-> FALSE, reachable |-> FALSE]
    /\ use_redis = PrecomputedCompatibilityCache(config)
    /\ cache_store = EmptyFn
    /\ scorer = EmptyFn
    /\ NoCall
    /\ NoSideCall

\* add_item_batch([item]), lines 42-64: INSERT OR REPLACE is committed
BeginAdd(i) ==
    /\ loader.st = "idle"
    /\ rows' = rows \cup {i}
    /\ loader' = [op |-> "add", item |-> i, st |-> "select", fetched |-> <<>>]
    /\ UNCHANGED <<notDb, items_cache, category_cache>>

\* delete_item(item_id), lines 101-105: DELETE is committed
BeginDelete(i) ==
    /\ loader.st = "idle"
    /\ rows' = rows \ {i}
    /\ loader' = [op |-> "delete", item |-> i, st |-> "select", fetched |-> <<>>]
    /\ UNCHANGED <<notDb, items_cache, category_cache>>

\* _load_cache, lines 71-75: rows = cursor.fetchall()
LoadSelect ==
    /\ loader.st = "select"
    /\ loader' = [loader EXCEPT !.st = "clear_items", !.fetched = Ascending(rows)]
    /\ UNCHANGED <<notDb, dbVars>>

\* line 77: self.items_cache.clear()
LoadClearItems ==
    /\ loader.st = "clear_items"
    /\ items_cache' = EmptyFn
    /\ loader' = [loader EXCEPT !.st = "clear_categories"]
    /\ UNCHANGED <<notDb, rows, category_cache>>

\* line 78: self.category_cache.clear()
LoadClearCategories ==
    /\ loader.st = "clear_categories"
    /\ category_cache' = EmptyFn
    /\ loader' = [loader EXCEPT !.st = "row"]
    /\ UNCHANGED <<notDb, rows, items_cache>>

\* lines 80-89: the next row; self.items_cache[item_id] = item_data
LoadRowItem ==
    /\ loader.st = "row"
    /\ loader.fetched # <<>>
    /\ LET item_id == Head(loader.fetched)
       IN items_cache' = [i \in DOMAIN items_cache \cup {item_id} |->
                             IF i = item_id THEN CategoryOf(i) ELSE items_cache[i]]
    /\ loader' = [loader EXCEPT !.st = "row_category"]
    /\ UNCHANGED <<notDb, rows, category_cache>>

\* lines 91-94: self.category_cache[category].append(item_data)
LoadRowCategory ==
    /\ loader.st = "row_category"
    /\ LET item_id == Head(loader.fetched)
           category == CategoryOf(item_id)
       IN category_cache' =
             [cat \in DOMAIN category_cache \cup {category} |->
                 IF cat = category
                 THEN IF cat \in DOMAIN category_cache
                      THEN Append(category_cache[cat], item_id)
                      ELSE <<item_id>>
                 ELSE category_cache[cat]]
    /\ loader' = [loader EXCEPT !.st = "row", !.fetched = Tail(@)]
    /\ UNCHANGED <<notDb, rows, items_cache>>

\* lines 96-97: the loop is over, _load_cache and its caller return
LoadReturn ==
    /\ loader.st = "row"
    /\ loader.fetched = <<>>
    /\ loader' = NoLoad
    /\ UNCHANGED <<notDb, dbVars>>

Loader ==
    \/ \E i \in Volatile : BeginAdd(i)
    \/ \E i \in Volatile : BeginDelete(i)
    \/ LoadSelect
    \/ LoadClearItems
    \/ LoadClearCategories
    \/ LoadRowItem
    \/ LoadRowCategory
    \/ LoadReturn

UpdateThread ==
    \/ \E sid \in Stable : GenerateOutfit(sid, MaxMaxItems)
    \/ ReturnOutfit
    \/ FindNoCandidate
    \/ FindSubmit
    \/ \E c \in Ids : Collect(c)
    \/ FinishFind

UpdateWorker(c) ==
    \/ StartTask(c)
    \/ TaskCacheGet(c)
    \/ \E s \in Scores : TaskPredictReturns(c, s, 0)
    \/ TaskCacheSet(c)

UpdateNext ==
    \/ UpdateThread
    \/ \E c \in Ids : UpdateWorker(c)
    \/ Loader

UpdateSpec == UpdateInit /\ [][UpdateNext]_vars

\* the category of the find that is running or that returned last
LastCategory == IF pc = "collect" THEN required[cat_idx] ELSE required[cat_idx - 1]

\* C24: while another request adds or deletes other items, a generation call
\* for a seed that is stored throughout does not fail with "not found", and
\* each of its finds sees every item of the category that is stored
\* throughout
C24_IndexVisibility ==
    /\ seed_item_id \in Stable => result.kind # "ValueError"
    /\ find_state # "none" =>
          \A i \in Stable \ Range(outfit_items) :
              CategoryOf(i) = LastCategory => i \in Range(candidates)

====
